---- MODULE Spec2Model ----
(***************************************************************************)
(* A model of the password-hash entity of the hsh crate                    *)
(* (src/src/models/hash.rs and the providers under src/src/algorithms).    *)
(*                                                                         *)
(* Text (&str, String) is modelled as the sequence of its UTF-8 bytes,     *)
(* which is what a Rust &str is; Vec<u8> salts are byte sequences that     *)
(* need not be valid UTF-8.  The three key-derivation primitives are the   *)
(* external crates argon2rs, bcrypt and scrypt; a digest is modelled as    *)
(* an opaque value that records the primitive and the inputs it was        *)
(* derived from (a collision-free primitive), together with its length.    *)
(***************************************************************************)
EXTENDS Integers, Sequences, FiniteSets, TLC

VARIABLES
    h,        \* the Hash entity the last constructor call returned, as mutated
              \* since (NoHash when that call returned no entity)
    op,       \* the last operation and its arguments
    res,      \* the value the last operation returned
    invoked,  \* the external primitives the last operation called
    out,      \* what the last operation wrote to standard output
    track     \* history of the entity since its construction

vars == <<h, op, res, invoked, out, track>>

-----------------------------------------------------------------------------
(* Bounds of the model                                                     *)

\* number of distinct random salts bcrypt::hash can draw
MaxNonce == 2

\* the longest chain of setter calls on one HashBuilder
MaxCalls == 3

-----------------------------------------------------------------------------
(* Byte strings                                                            *)

Min(a, b) == IF a < b THEN a ELSE b

Rep(b, n) == [i \in 1..n |-> b]

\* the algorithm identifiers
ID_argon2i == <<97, 114, 103, 111, 110, 50, 105>>      \* "argon2i"
ID_bcrypt  == <<98, 99, 114, 121, 112, 116>>           \* "bcrypt"
ID_scrypt  == <<115, 99, 114, 121, 112, 116>>          \* "scrypt"
ID_md5     == <<109, 100, 53>>                         \* "md5"
ID_Argon2i == <<65, 114, 103, 111, 110, 50, 105>>       \* "Argon2i"
ID_empty   == <<>>                                     \* ""

\* std::str::from_utf8(bytes).is_ok(): well-formed UTF-8 from position i on
IsCont(c) == c >= 128 /\ c <= 191

RECURSIVE Utf8From(_, _)
Utf8From(b, i) ==
    IF i > Len(b) THEN TRUE
    ELSE LET c == b[i] IN
         IF c < 128 THEN Utf8From(b, i + 1)
         ELSE IF c >= 194 /\ c <= 223
              THEN /\ i + 1 <= Len(b)
                   /\ IsCont(b[i + 1])
                   /\ Utf8From(b, i + 2)
         ELSE IF c >= 224 /\ c <= 239
              THEN /\ i + 2 <= Len(b)
                   /\ IsCont(b[i + 1])
                   /\ (c = 224 => b[i + 1] >= 160)
                   /\ (c = 237 => b[i + 1] <= 159)
                   /\ IsCont(b[i + 2])
                   /\ Utf8From(b, i + 3)
         ELSE IF c >= 240 /\ c <= 244
              THEN /\ i + 3 <= Len(b)
                   /\ IsCont(b[i + 1])
                   /\ (c = 240 => b[i + 1] >= 144)
                   /\ (c = 244 => b[i + 1] <= 143)
                   /\ IsCont(b[i + 2])
                   /\ IsCont(b[i + 3])
                   /\ Utf8From(b, i + 4)
         ELSE FALSE

from_utf8_ok(b) == Utf8From(b, 1)

-----------------------------------------------------------------------------
(* Hash bytes (Vec<u8>)                                                    *)

\* bytes given by the caller
RawHash(bytes) ==
    [kind |-> "raw", pw |-> <<>>, salt |-> <<>>, nonce |-> 0, raw |-> bytes]

\* the output of a key-derivation primitive on (pw, salt)
Digest(kind, pw, salt, nonce) ==
    [kind |-> kind, pw |-> pw, salt |-> salt, nonce |-> nonce, raw |-> <<>>]

ARGON2_OUT_LEN == 32
BCRYPT_OUT_LEN == 60
SCRYPT_OUT_LEN == 64

\* Vec::len of hash bytes
HashLen(v) ==
    CASE v.kind = "raw"     -> Len(v.raw)
      [] v.kind = "argon2i" -> ARGON2_OUT_LEN
      [] v.kind = "bcrypt"  -> BCRYPT_OUT_LEN
      [] v.kind = "scrypt"  -> SCRYPT_OUT_LEN


-----------------------------------------------------------------------------
(* Values returned by the operations                                       *)

\* a result carries, besides Ok/Err, the value inside it: a bool, a
\* HashAlgorithm variant (tag) or a String (text)
\* or hash bytes (hash)
OkUnit    == [kind |-> "Ok", bool |-> FALSE, err |-> "", earg |-> <<>>,
              tag |-> "None", text |-> <<>>, hash |-> RawHash(<<>>)]
OkBool(b) == [OkUnit EXCEPT !.bool = b]
OkHash(v) == [OkUnit EXCEPT !.hash = v]
OkTag(t)  == [OkUnit EXCEPT !.tag = t]
OkText(s) == [OkUnit EXCEPT !.text = s]
Err(msg, arg) == [OkUnit EXCEPT !.kind = "Err", !.err = msg, !.earg = arg]
Panic     == [OkUnit EXCEPT !.kind = "Panic"]
NoResult  == [OkUnit EXCEPT !.kind = "None"]

E_TooShort    == "Password is too short. It must be at least 8 characters."
E_Unsupported == "Unsupported hash algorithm: "
E_SaltUtf8    == "Failed to convert salt to string"
E_HashUtf8    == "Failed to convert hash to string"
E_BcryptVerify == "Failed to verify Bcrypt password"
E_InvalidAlgorithm == "Invalid hash algorithm"
E_BcryptHash == "Failed to hash password with Bcrypt: "
E_MissingFields == "Missing fields"
E_InvalidString == "Invalid hash string"
E_Base64 == "Failed to decode base64: "

\* what a provider call gives back: its result, the bytes and the primitives used
Provided(ret, hash, prims) == [ret |-> ret, hash |-> hash, prims |-> prims]

-----------------------------------------------------------------------------
(* The external primitives                                                 *)

\* argon2rs asserts 8 <= salt.len() and aborts the call otherwise
ARGON2_MIN_SALT == 8

argon2i_simple(password, salt) ==
    IF Len(salt) < ARGON2_MIN_SALT
    THEN Provided(Panic, RawHash(<<>>), {"argon2i_simple"})
    ELSE Provided(OkUnit, Digest("argon2i", password, salt, 0), {"argon2i_simple"})

\* scrypt::scrypt with Params::new(14, 8, 1, 64): accepts every password and salt
scrypt(password, salt) ==
    Provided(OkUnit, Digest("scrypt", password, salt, 0), {"scrypt"})

\* the key bcrypt derives from: the password and its terminating NUL, cut to
\* the 72 bytes the Blowfish key schedule reads
bcrypt_key(password) ==
    SubSeq(password \o <<0>>, 1, Min(72, Len(password) + 1))

\* bcrypt::hash(password, cost) draws a fresh 16-byte salt (nonce) and embeds
\* the cost and the salt in its 60-character output
bcrypt_hash(password, nonce) ==
    Provided(OkUnit, Digest("bcrypt", bcrypt_key(password), <<>>, nonce),
             {"bcrypt::hash"})

\* the costs bcrypt takes; any other is BcryptError::CostNotAllowed
BCRYPT_MIN_COST == 4
BCRYPT_MAX_COST == 31

\* bcrypt::hash(password, cost) for a cost the caller gives: the cost is
\* written in the output next to the salt
bcrypt_hash_cost(password, cost, nonce) ==
    IF cost < BCRYPT_MIN_COST \/ cost > BCRYPT_MAX_COST
    THEN Provided(Err(E_BcryptHash, <<>>), RawHash(<<>>), {"bcrypt::hash"})
    ELSE Provided(OkUnit, Digest("bcrypt", bcrypt_key(password), <<cost>>, nonce),
                  {"bcrypt::hash"})

\* bcrypt::verify(password, hash_str) on a well-formed bcrypt string
bcrypt_verify(password, hashval) ==
    bcrypt_key(password) = hashval.pw

-----------------------------------------------------------------------------
(* The providers (trait HashingAlgorithm)                                  *)

Argon2i_hash_password(password, salt) == argon2i_simple(password, salt)

Bcrypt_hash_password(password, salt, nonce) == bcrypt_hash(password, nonce)

Scrypt_hash_password(password, salt) == scrypt(password, salt)

-----------------------------------------------------------------------------
(* base64::engine::general_purpose::STANDARD                               *)

\* the character of the standard alphabet for the 6-bit value v
B64Char(v) ==
    IF v < 26 THEN 65 + v
    ELSE IF v < 52 THEN 97 + (v - 26)
    ELSE IF v < 62 THEN 48 + (v - 52)
    ELSE IF v = 62 THEN 43 ELSE 47

\* the 6-bit value of a character, -1 when it is not in the alphabet
B64Val(c) ==
    IF c >= 65 /\ c <= 90 THEN c - 65
    ELSE IF c >= 97 /\ c <= 122 THEN c - 97 + 26
    ELSE IF c >= 48 /\ c <= 57 THEN c - 48 + 52
    ELSE IF c = 43 THEN 62
    ELSE IF c = 47 THEN 63
    ELSE -1

B64Pad == 61                                            \* "="

\* Engine::encode: three bytes give four characters, the tail is padded
RECURSIVE Base64Encode(_)
Base64Encode(b) ==
    IF Len(b) = 0 THEN <<>>
    ELSE IF Len(b) = 1
    THEN <<B64Char(b[1] \div 4), B64Char((b[1] % 4) * 16), B64Pad, B64Pad>>
    ELSE IF Len(b) = 2
    THEN <<B64Char(b[1] \div 4),
           B64Char((b[1] % 4) * 16 + b[2] \div 16),
           B64Char((b[2] % 16) * 4), B64Pad>>
    ELSE <<B64Char(b[1] \div 4),
           B64Char((b[1] % 4) * 16 + b[2] \div 16),
           B64Char((b[2] % 16) * 4 + b[3] \div 64),
           B64Char(b[3] % 64)>> \o Base64Encode(SubSeq(b, 4, Len(b)))

\* what decode gives back: Ok(bytes) or Err(DecodeError)
Decoded(ok, bytes) == [ok |-> ok, bytes |-> bytes]

\* Engine::decode from position i on: whole groups of four characters,
\* padding only in the last group, and no stray bits before the padding
RECURSIVE Base64DecodeFrom(_, _)
Base64DecodeFrom(t, i) ==
    IF i > Len(t) THEN Decoded(TRUE, <<>>)
    ELSE IF i + 3 > Len(t) THEN Decoded(FALSE, <<>>)
    ELSE LET v1 == B64Val(t[i])
             v2 == B64Val(t[i + 1])
             v3 == B64Val(t[i + 2])
             v4 == B64Val(t[i + 3])
             last == i + 3 = Len(t)
         IN  IF v1 < 0 \/ v2 < 0 THEN Decoded(FALSE, <<>>)
             ELSE IF t[i + 2] = B64Pad
             THEN IF last /\ t[i + 3] = B64Pad /\ v2 % 16 = 0
                  THEN Decoded(TRUE, <<v1 * 4 + v2 \div 16>>)
                  ELSE Decoded(FALSE, <<>>)
             ELSE IF v3 < 0 THEN Decoded(FALSE, <<>>)
             ELSE IF t[i + 3] = B64Pad
             THEN IF last /\ v3 % 4 = 0
                  THEN Decoded(TRUE, <<v1 * 4 + v2 \div 16,
                                       (v2 % 16) * 16 + v3 \div 4>>)
                  ELSE Decoded(FALSE, <<>>)
             ELSE IF v4 < 0 THEN Decoded(FALSE, <<>>)
             ELSE LET rest == Base64DecodeFrom(t, i + 4) IN
                  IF rest.ok
                  THEN Decoded(TRUE, <<v1 * 4 + v2 \div 16,
                                       (v2 % 16) * 16 + v3 \div 4,
                                       (v3 % 4) * 64 + v4>> \o rest.bytes)
                  ELSE Decoded(FALSE, <<>>)

Base64Decode(t) == Base64DecodeFrom(t, 1)

-----------------------------------------------------------------------------
(* The Hash entity                                                         *)

Entity(hash, salt, algorithm) ==
    [hash |-> hash, salt |-> salt, algorithm |-> algorithm]

\* no entity constructed yet
NoHash == Entity(RawHash(<<>>), <<>>, "None")

\* what a constructor gives back
Built(ret, e, prims) == [ret |-> ret, h |-> e, prims |-> prims]

generate_hash(password, salt, algo, nonce) ==
    CASE algo = ID_argon2i -> Argon2i_hash_password(password, salt)
      [] algo = ID_bcrypt  -> Bcrypt_hash_password(password, salt, nonce)
      [] algo = ID_scrypt  -> Scrypt_hash_password(password, salt)
      [] OTHER -> Provided(Err(E_Unsupported, algo), RawHash(<<>>), {})

\* a new that keeps no salt for a Bcrypt entity
new_unsalted_bcrypt(password, salt, algo, nonce) ==
    IF Len(password) < 8
    THEN Built(Err(E_TooShort, <<>>), NoHash, {})
    ELSE LET g == generate_hash(password, salt, algo, nonce) IN
         IF g.ret.kind # "Ok"
         THEN Built(g.ret, NoHash, g.prims)
         ELSE CASE algo = ID_argon2i ->
                     Built(OkUnit, Entity(g.hash, salt, "Argon2i"), g.prims)
                [] algo = ID_bcrypt ->
                     Built(OkUnit, Entity(g.hash, <<>>, "Bcrypt"), g.prims)
                [] algo = ID_scrypt ->
                     Built(OkUnit, Entity(g.hash, salt, "Scrypt"), g.prims)
                [] OTHER -> Built(Err(E_Unsupported, algo), NoHash, g.prims)

\* a new that looks at the identifier before the length of the password
new_identifier_first(password, salt, algo, nonce) ==
    IF algo \notin {ID_argon2i, ID_bcrypt, ID_scrypt}
    THEN Built(Err(E_Unsupported, algo), NoHash, {})
    ELSE IF Len(password) < 8
    THEN Built(Err(E_TooShort, <<>>), NoHash, {})
    ELSE LET g == generate_hash(password, salt, algo, nonce) IN
         IF g.ret.kind # "Ok"
         THEN Built(g.ret, NoHash, g.prims)
         ELSE Built(OkUnit,
                    Entity(g.hash, salt,
                           CASE algo = ID_argon2i -> "Argon2i"
                             [] algo = ID_bcrypt  -> "Bcrypt"
                             [] algo = ID_scrypt  -> "Scrypt"),
                    g.prims)

new(password, salt, algo, nonce) ==
    IF Len(password) < 8
    THEN Built(Err(E_TooShort, <<>>), NoHash, {})
    ELSE LET g == generate_hash(password, salt, algo, nonce) IN
         IF g.ret.kind # "Ok"
         THEN Built(g.ret, NoHash, g.prims)
         ELSE CASE algo = ID_argon2i ->
                     Built(OkUnit, Entity(g.hash, salt, "Argon2i"), g.prims)
                [] algo = ID_bcrypt ->
                     Built(OkUnit, Entity(g.hash, salt, "Bcrypt"), g.prims)
                [] algo = ID_scrypt ->
                     Built(OkUnit, Entity(g.hash, salt, "Scrypt"), g.prims)
                [] OTHER -> Built(Err(E_Unsupported, algo), NoHash, g.prims)

\* a from_hash that keeps the hash bytes as the salt too
from_hash_salted(hash, algo) ==
    CASE algo = ID_argon2i -> Built(OkUnit, Entity(hash, hash.raw, "Argon2i"), {})
      [] algo = ID_bcrypt  -> Built(OkUnit, Entity(hash, hash.raw, "Bcrypt"), {})
      [] algo = ID_scrypt  -> Built(OkUnit, Entity(hash, hash.raw, "Scrypt"), {})
      [] OTHER -> Built(Err(E_Unsupported, algo), NoHash, {})

from_hash(hash, algo) ==
    CASE algo = ID_argon2i -> Built(OkUnit, Entity(hash, <<>>, "Argon2i"), {})
      [] algo = ID_bcrypt  -> Built(OkUnit, Entity(hash, <<>>, "Bcrypt"), {})
      [] algo = ID_scrypt  -> Built(OkUnit, Entity(hash, <<>>, "Scrypt"), {})
      [] OTHER -> Built(Err(E_Unsupported, algo), NoHash, {})

\* Option<T>: None keeps a placeholder d of the type
NoneOf(d) == [some |-> FALSE, val |-> d]
Some(v) == [some |-> TRUE, val |-> v]

\* HashBuilder::new: all fields None
HashBuilder_new ==
    [hash |-> NoneOf(RawHash(<<>>)), salt |-> NoneOf(<<>>),
     algorithm |-> NoneOf("None")]

HashBuilder_hash(b, hash) == [b EXCEPT !.hash = Some(hash)]

HashBuilder_salt(b, salt) == [b EXCEPT !.salt = Some(salt)]

HashBuilder_algorithm(b, algorithm) == [b EXCEPT !.algorithm = Some(algorithm)]

\* a build that is content with a hash and an algorithm
HashBuilder_build_unsalted(b) ==
    IF b.hash.some /\ b.algorithm.some
    THEN Built(OkUnit, Entity(b.hash.val, b.salt.val, b.algorithm.val), {})
    ELSE Built(Err(E_MissingFields, <<>>), NoHash, {})

HashBuilder_build(b) ==
    IF b.hash.some /\ b.salt.some /\ b.algorithm.some
    THEN Built(OkUnit, Entity(b.hash.val, b.salt.val, b.algorithm.val), {})
    ELSE Built(Err(E_MissingFields, <<>>), NoHash, {})

\* one setter call of a builder chain: the field and the value given
Call(field, hash, salt, algorithm) ==
    [field |-> field, hash |-> hash, salt |-> salt, algorithm |-> algorithm]

\* the builder after the setter calls of a chain, from HashBuilder::new on
RECURSIVE Chained(_)
Chained(calls) ==
    IF calls = <<>> THEN HashBuilder_new
    ELSE LET b == Chained(SubSeq(calls, 1, Len(calls) - 1))
             c == calls[Len(calls)]
         IN  CASE c.field = "hash" -> HashBuilder_hash(b, c.hash)
               [] c.field = "salt" -> HashBuilder_salt(b, c.salt)
               [] c.field = "algorithm" -> HashBuilder_algorithm(b, c.algorithm)

\* with(r, prims): the result r of a build, with the primitives used before
BuiltWith(r, prims) == Built(r.ret, r.h, prims)

new_argon2i(password, salt) ==
    IF ~from_utf8_ok(salt)
    THEN Built(Err(E_SaltUtf8, <<>>), NoHash, {})
    ELSE LET c == argon2i_simple(password, salt) IN
         IF c.ret.kind = "Panic" THEN Built(Panic, NoHash, c.prims)
         ELSE BuiltWith(
                HashBuilder_build(
                  HashBuilder_algorithm(
                    HashBuilder_salt(HashBuilder_hash(HashBuilder_new, c.hash),
                                     salt),
                    "Argon2i")),
                c.prims)

\* a new_bcrypt that refuses a password of fewer than 8 bytes
new_bcrypt_checked(password, cost, nonce) ==
    IF Len(password) < 8 THEN Built(Err(E_TooShort, <<>>), NoHash, {})
    ELSE LET c == bcrypt_hash_cost(password, cost, nonce) IN
         IF c.ret.kind # "Ok" THEN Built(c.ret, NoHash, c.prims)
         ELSE Built(OkUnit, Entity(c.hash, <<>>, "Bcrypt"), c.prims)

new_bcrypt(password, cost, nonce) ==
    LET c == bcrypt_hash_cost(password, cost, nonce) IN
    IF c.ret.kind # "Ok" THEN Built(c.ret, NoHash, c.prims)
    ELSE BuiltWith(
           HashBuilder_build(
             HashBuilder_algorithm(
               HashBuilder_salt(HashBuilder_hash(HashBuilder_new, c.hash),
                                <<>>),
               "Bcrypt")),
           c.prims)

new_scrypt(password, salt) ==
    IF ~from_utf8_ok(salt)
    THEN Built(Err(E_SaltUtf8, <<>>), NoHash, {})
    ELSE LET c == Scrypt_hash_password(password, salt) IN
         IF c.ret.kind # "Ok" THEN Built(c.ret, NoHash, c.prims)
         ELSE BuiltWith(
                HashBuilder_build(
                  HashBuilder_algorithm(
                    HashBuilder_salt(HashBuilder_hash(HashBuilder_new, c.hash),
                                     salt),
                    "Scrypt")),
                c.prims)

\* macro match_algo!
match_algo(algo_str) ==
    CASE algo_str = ID_argon2i -> OkTag("Argon2i")
      [] algo_str = ID_bcrypt  -> OkTag("Bcrypt")
      [] algo_str = ID_scrypt  -> OkTag("Scrypt")
      [] OTHER -> Err(E_Unsupported, algo_str)

\* impl FromStr for HashAlgorithm
HashAlgorithm_from_str(algorithm_str) ==
    CASE algorithm_str = ID_argon2i -> OkTag("Argon2i")
      [] algorithm_str = ID_bcrypt  -> OkTag("Bcrypt")
      [] algorithm_str = ID_scrypt  -> OkTag("Scrypt")
      [] OTHER -> Err(E_InvalidAlgorithm, <<>>)

\* impl Display for HashAlgorithm: write!(f, "{:?}", self), the name of the
\* variant as the enum spells it
HashAlgorithm_fmt(v) ==
    CASE v = "Argon2i" -> <<65, 114, 103, 111, 110, 50, 105>>    \* "Argon2i"
      [] v = "Bcrypt"  -> <<66, 99, 114, 121, 112, 116>>         \* "Bcrypt"
      [] v = "Scrypt"  -> <<83, 99, 114, 121, 112, 116>>         \* "Scrypt"

\* len characters drawn from the 62 letters and digits (one draw c repeated)
generate_random_string(len, c) == Rep(c, len)

\* a generate_salt that takes the identifier without regard to case
generate_salt_any_case(algo, c, b) ==
    CASE algo \in {ID_argon2i, ID_Argon2i} -> OkText(generate_random_string(16, c))
      [] algo = ID_bcrypt  -> OkText(Base64Encode(Rep(b, 16)))
      [] algo = ID_scrypt  -> OkText(Base64Encode(Rep(b, 32)))
      [] OTHER -> Err(E_Unsupported, algo)

\* a generate_salt that encodes 15 random bytes for bcrypt
generate_salt_short(algo, c, b) ==
    CASE algo = ID_argon2i -> OkText(generate_random_string(16, c))
      [] algo = ID_bcrypt  -> OkText(Base64Encode(Rep(b, 15)))
      [] algo = ID_scrypt  -> OkText(Base64Encode(Rep(b, 32)))
      [] OTHER -> Err(E_Unsupported, algo)

\* c is the character and b the byte the random source yields
generate_salt(algo, c, b) ==
    CASE algo = ID_argon2i -> OkText(generate_random_string(16, c))
      [] algo = ID_bcrypt  -> OkText(Base64Encode(Rep(b, 16)))
      [] algo = ID_scrypt  -> OkText(Base64Encode(Rep(b, 32)))
      [] OTHER -> Err(E_Unsupported, algo)

DOLLAR == 36                                            \* "$"

\* str::split(d): the segments between the delimiters, empty ones included
RECURSIVE split(_, _)
split(t, d) ==
    LET cuts == {i \in 1..Len(t) : t[i] = d} IN
    IF cuts = {} THEN <<t>>
    ELSE LET i == CHOOSE j \in cuts : \A k \in cuts : j <= k IN
         <<SubSeq(t, 1, i - 1)>> \o split(SubSeq(t, i + 1, Len(t)), d)

\* a parse_algorithm that takes an unknown token for Argon2i
parse_algorithm_lenient(hash_str) ==
    LET parts == split(hash_str, DOLLAR) IN
    IF Len(parts) < 2 THEN Err(E_InvalidString, <<>>)
    ELSE CASE parts[2] = ID_bcrypt  -> OkTag("Bcrypt")
           [] parts[2] = ID_scrypt  -> OkTag("Scrypt")
           [] OTHER -> OkTag("Argon2i")

\* a parse_algorithm that takes only strings that start with "$"
parse_algorithm_anchored(hash_str) ==
    LET parts == split(hash_str, DOLLAR) IN
    IF Len(parts) < 2 \/ parts[1] # <<>> THEN Err(E_InvalidString, <<>>)
    ELSE CASE parts[2] = ID_argon2i -> OkTag("Argon2i")
           [] parts[2] = ID_bcrypt  -> OkTag("Bcrypt")
           [] parts[2] = ID_scrypt  -> OkTag("Scrypt")
           [] OTHER -> Err(E_Unsupported, parts[2])

\* parts[1] of the code is parts[2] here: sequences start at 1
parse_algorithm(hash_str) ==
    LET parts == split(hash_str, DOLLAR) IN
    IF Len(parts) < 2 THEN Err(E_InvalidString, <<>>)
    ELSE CASE parts[2] = ID_argon2i -> OkTag("Argon2i")
           [] parts[2] = ID_bcrypt  -> OkTag("Bcrypt")
           [] parts[2] = ID_scrypt  -> OkTag("Scrypt")
           [] OTHER -> Err(E_Unsupported, parts[2])

\* format!("${}${}${}${}", parts[1], parts[2], parts[3], parts[4])
salt_format(parts) ==
    <<DOLLAR>> \o parts[2] \o <<DOLLAR>> \o parts[3] \o <<DOLLAR>> \o parts[4]
        \o <<DOLLAR>> \o parts[5]

\* a from_string that keeps only the last parameter as the salt
from_string_bare_salt(hash_str) ==
    LET parts == split(hash_str, DOLLAR) IN
    IF Len(parts) # 6
    THEN Built(Err(E_InvalidString, <<>>), NoHash, {})
    ELSE LET algorithm == parse_algorithm(hash_str) IN
         IF algorithm.kind # "Ok" THEN Built(algorithm, NoHash, {})
         ELSE LET salt == parts[5]
                  hash_bytes == Base64Decode(parts[6])
              IN  IF ~hash_bytes.ok
                  THEN Built(Err(E_Base64, parts[6]), NoHash, {})
                  ELSE Built(OkUnit,
                             Entity(RawHash(hash_bytes.bytes), salt,
                                    algorithm.tag),
                             {})

\* a from_string that stores the last segment as it is written
from_string_undecoded(hash_str) ==
    LET parts == split(hash_str, DOLLAR) IN
    IF Len(parts) # 6
    THEN Built(Err(E_InvalidString, <<>>), NoHash, {})
    ELSE LET algorithm == parse_algorithm(hash_str) IN
         IF algorithm.kind # "Ok" THEN Built(algorithm, NoHash, {})
         ELSE LET salt == salt_format(parts)
                  hash_bytes == Decoded(TRUE, parts[6])
              IN  IF ~hash_bytes.ok
                  THEN Built(Err(E_Base64, parts[6]), NoHash, {})
                  ELSE Built(OkUnit,
                             Entity(RawHash(hash_bytes.bytes), salt,
                                    algorithm.tag),
                             {})

\* a from_string that also takes seven segments
from_string_seven(hash_str) ==
    LET parts == split(hash_str, DOLLAR) IN
    IF Len(parts) \notin {6, 7}
    THEN Built(Err(E_InvalidString, <<>>), NoHash, {})
    ELSE LET algorithm == parse_algorithm(hash_str) IN
         IF algorithm.kind # "Ok" THEN Built(algorithm, NoHash, {})
         ELSE LET salt == salt_format(parts)
                  hash_bytes == Base64Decode(parts[6])
              IN  IF ~hash_bytes.ok
                  THEN Built(Err(E_Base64, parts[6]), NoHash, {})
                  ELSE Built(OkUnit,
                             Entity(RawHash(hash_bytes.bytes), salt,
                                    algorithm.tag),
                             {})

\* a from_string that leaves the algorithm out of the salt
from_string_untagged(hash_str) ==
    LET parts == split(hash_str, DOLLAR) IN
    IF Len(parts) # 6
    THEN Built(Err(E_InvalidString, <<>>), NoHash, {})
    ELSE LET algorithm == parse_algorithm(hash_str) IN
         IF algorithm.kind # "Ok" THEN Built(algorithm, NoHash, {})
         ELSE LET salt == SubSeq(salt_format(parts), Len(parts[2]) + 2,
                                 Len(salt_format(parts)))
                  hash_bytes == Base64Decode(parts[6])
              IN  IF ~hash_bytes.ok
                  THEN Built(Err(E_Base64, parts[6]), NoHash, {})
                  ELSE Built(OkUnit,
                             Entity(RawHash(hash_bytes.bytes), salt,
                                    algorithm.tag),
                             {})

from_string(hash_str) ==
    LET parts == split(hash_str, DOLLAR) IN
    IF Len(parts) # 6
    THEN Built(Err(E_InvalidString, <<>>), NoHash, {})
    ELSE LET algorithm == parse_algorithm(hash_str) IN
         IF algorithm.kind # "Ok" THEN Built(algorithm, NoHash, {})
         ELSE LET salt == salt_format(parts)
                  hash_bytes == Base64Decode(parts[6])
              IN  IF ~hash_bytes.ok
                  THEN Built(Err(E_Base64, parts[6]), NoHash, {})
                  ELSE Built(OkUnit,
                             Entity(RawHash(hash_bytes.bytes), salt,
                                    algorithm.tag),
                             {})

\* the bytes of a hash given as bytes (a digest is opaque: its bytes are not
\* modelled)
HashBytes(v) == CASE v.kind = "raw" -> v.raw

\* the character of a hexadecimal digit, lowercase
HexDigit(d) == IF d < 10 THEN 48 + d ELSE 97 + (d - 10)

\* a hex that writes a byte below 16 with one digit ("{:x}")
hex_unpadded(bytes) ==
    IF bytes = <<>> THEN <<>>
    ELSE LET n == Len(bytes)
             one(b) == IF b < 16 THEN <<HexDigit(b)>>
                       ELSE <<HexDigit(b \div 16), HexDigit(b % 16)>>
             RECURSIVE cat(_)
             cat(i) == IF i > n THEN <<>> ELSE one(bytes[i]) \o cat(i + 1)
         IN  cat(1)

\* format!("{:02x}", b) for each byte, joined
hex(bytes) ==
    [i \in 1..(2 * Len(bytes)) |->
        IF i % 2 = 1 THEN HexDigit(bytes[(i + 1) \div 2] \div 16)
                     ELSE HexDigit(bytes[i \div 2] % 16)]

REPLACEMENT == <<239, 191, 189>>                        \* U+FFFD

\* the number of bytes from i on that form one character, or that form the
\* longest prefix of one when the character is broken (ok = FALSE)
Utf8Chunk(b, i) ==
    LET c == b[i]
        has(k) == i + k <= Len(b)
        cont(k) == has(k) /\ IsCont(b[i + k])
        second3 == /\ cont(1)
                   /\ (c = 224 => b[i + 1] >= 160)
                   /\ (c = 237 => b[i + 1] <= 159)
        second4 == /\ cont(1)
                   /\ (c = 240 => b[i + 1] >= 144)
                   /\ (c = 244 => b[i + 1] <= 143)
    IN  IF c < 128 THEN [ok |-> TRUE, n |-> 1]
        ELSE IF c >= 194 /\ c <= 223
        THEN IF cont(1) THEN [ok |-> TRUE, n |-> 2] ELSE [ok |-> FALSE, n |-> 1]
        ELSE IF c >= 224 /\ c <= 239
        THEN IF ~second3 THEN [ok |-> FALSE, n |-> 1]
             ELSE IF ~cont(2) THEN [ok |-> FALSE, n |-> 2]
             ELSE [ok |-> TRUE, n |-> 3]
        ELSE IF c >= 240 /\ c <= 244
        THEN IF ~second4 THEN [ok |-> FALSE, n |-> 1]
             ELSE IF ~cont(2) THEN [ok |-> FALSE, n |-> 2]
             ELSE IF ~cont(3) THEN [ok |-> FALSE, n |-> 3]
             ELSE [ok |-> TRUE, n |-> 4]
        ELSE [ok |-> FALSE, n |-> 1]

\* String::from_utf8_lossy: every broken sequence becomes one U+FFFD
RECURSIVE LossyFrom(_, _)
LossyFrom(b, i) ==
    IF i > Len(b) THEN <<>>
    ELSE LET k == Utf8Chunk(b, i) IN
         (IF k.ok THEN SubSeq(b, i, i + k.n - 1) ELSE REPLACEMENT)
             \o LossyFrom(b, i + k.n)

from_utf8_lossy(b) == LossyFrom(b, 1)

COLON == 58                                             \* ":"

\* a to_string_representation whose hex digits are not padded to two
to_string_representation_unpadded(e) ==
    from_utf8_lossy(e.salt) \o <<COLON>> \o hex_unpadded(HashBytes(e.hash))

to_string_representation(e) ==
    from_utf8_lossy(e.salt) \o <<COLON>> \o hex(HashBytes(e.hash))

\* the extended serializer: the salt with its algorithm and parameter
\* segments as stored, a "$", and the standard base64 of the hash
to_string_extended(e) ==
    e.salt \o <<DOLLAR>> \o Base64Encode(HashBytes(e.hash))

\* what a method gives back: its result, the entity after the call, the
\* primitives it used and what it printed
Outcome(ret, e, prims, o) == [ret |-> ret, h |-> e, prims |-> prims, out |-> o]

set_hash(e, hash) == [e EXCEPT !.hash = hash]

\* a set_salt that leaves the stored salt as it was
set_salt_dropped(e, salt) == e

set_salt(e, salt) == [e EXCEPT !.salt = salt]

\* a set_password that also adopts the algorithm named by its argument
set_password_retags(e, password, salt, algo, nonce) ==
    LET g == generate_hash(password, salt, algo, nonce)
        tag == CASE algo = ID_argon2i -> "Argon2i"
                 [] algo = ID_bcrypt  -> "Bcrypt"
                 [] algo = ID_scrypt  -> "Scrypt"
                 [] OTHER -> e.algorithm
    IN  IF g.ret.kind = "Ok"
        THEN Outcome(OkUnit, [e EXCEPT !.hash = g.hash, !.algorithm = tag],
                     g.prims, {})
        ELSE Outcome(g.ret, e, g.prims, {})

\* a set_password that also stores the salt it is given
set_password_resalts(e, password, salt, algo, nonce) ==
    LET g == generate_hash(password, salt, algo, nonce) IN
    IF g.ret.kind = "Ok"
    THEN Outcome(OkUnit, [e EXCEPT !.hash = g.hash, !.salt = salt], g.prims, {})
    ELSE Outcome(g.ret, e, g.prims, {})

\* a set_password that clears the hash when the new one cannot be derived
set_password_wipes(e, password, salt, algo, nonce) ==
    LET g == generate_hash(password, salt, algo, nonce) IN
    IF g.ret.kind = "Ok"
    THEN Outcome(OkUnit, [e EXCEPT !.hash = g.hash], g.prims, {})
    ELSE Outcome(g.ret, [e EXCEPT !.hash = RawHash(<<>>)], g.prims, {})

set_password(e, password, salt, algo, nonce) ==
    LET g == generate_hash(password, salt, algo, nonce) IN
    IF g.ret.kind = "Ok"
    THEN Outcome(OkUnit, [e EXCEPT !.hash = g.hash], g.prims, {})
    ELSE Outcome(g.ret, e, g.prims, {})

\* what the Argon2i and Scrypt arms of verify print
PrintedDigests ==
    {"algorithm", "password", "salt", "calculated_hash", "stored_hash"}

\* an Argon2i arm that keeps the hash it calculated in the entity
verify_argon2i_stores(e, password, salt) ==
    LET c == argon2i_simple(password, salt) IN
    IF c.ret.kind = "Panic"
    THEN {Outcome(Panic, e, c.prims, {})}
    ELSE {Outcome(OkBool(c.hash = e.hash), [e EXCEPT !.hash = c.hash], c.prims,
                  PrintedDigests)}

\* the Argon2i arm of verify: the hash is calculated before anything is printed
verify_argon2i(e, password, salt) ==
    LET c == argon2i_simple(password, salt) IN
    IF c.ret.kind = "Panic"
    THEN {Outcome(Panic, e, c.prims, {})}
    ELSE {Outcome(OkBool(c.hash = e.hash), e, c.prims, PrintedDigests)}

\* the Bcrypt arm of verify: the stored hash is decoded as UTF-8 and handed
\* to bcrypt::verify, which rejects whatever is not a bcrypt string (the
\* caller-given bytes of this model are no bcrypt strings; whether the bytes
\* of an Argon2i or Scrypt digest are UTF-8 is not known)
verify_bcrypt(e, password) ==
    LET printed == {"algorithm", "password"}
        notUtf8 == Outcome(Err(E_HashUtf8, <<>>), e, {}, printed)
        rejected == Outcome(Err(E_BcryptVerify, <<>>), e, {"bcrypt::verify"}, printed)
    IN  CASE e.hash.kind = "bcrypt" ->
               {Outcome(OkBool(bcrypt_verify(password, e.hash)), e,
                        {"bcrypt::verify"}, printed)}
          [] e.hash.kind = "raw" ->
               IF from_utf8_ok(e.hash.raw) THEN {rejected} ELSE {notUtf8}
          [] OTHER -> {notUtf8, rejected}

\* the Scrypt arm of verify
verify_scrypt(e, password, salt) ==
    LET c == scrypt(password, salt) IN
    {Outcome(OkBool(c.hash = e.hash), e, c.prims, PrintedDigests)}

\* a verify that decodes the salt only in the arms that use it
verify_decodes_late(e, password) ==
    CASE e.algorithm = "Bcrypt" -> verify_bcrypt(e, password)
      [] OTHER ->
           IF ~from_utf8_ok(e.salt)
           THEN {Outcome(Err(E_SaltUtf8, <<>>), e, {}, {})}
           ELSE CASE e.algorithm = "Argon2i" -> verify_argon2i(e, password, e.salt)
                  [] e.algorithm = "Scrypt" -> verify_scrypt(e, password, e.salt)

\* the set of outcomes verify can have (one, except where the outcome hangs
\* on the bytes of a digest)
verify(e, password) ==
    IF ~from_utf8_ok(e.salt)
    THEN {Outcome(Err(E_SaltUtf8, <<>>), e, {}, {})}
    ELSE CASE e.algorithm = "Argon2i" -> verify_argon2i(e, password, e.salt)
           [] e.algorithm = "Bcrypt"  -> verify_bcrypt(e, password)
           [] e.algorithm = "Scrypt"  -> verify_scrypt(e, password, e.salt)

-----------------------------------------------------------------------------
(* The inputs the model draws from                                         *)

P_short    == <<115, 104, 111, 114, 116>>                   \* "short"
\* four times U+00E9: 4 characters, 8 bytes
P_accents  == <<195, 169, 195, 169, 195, 169, 195, 169>>
\* two passwords of 73 bytes that share their first 72 bytes
P_longB    == Rep(97, 72) \o <<98>>
P_longC    == Rep(97, 72) \o <<99>>

Passwords == {P_short, P_accents, P_longB, P_longC}

S_somesalt == <<115, 111, 109, 101, 115, 97, 108, 116>>     \* "somesalt"
S_pepper   == <<112, 101, 112, 112, 101, 114, 49, 50>>      \* "pepper12"
S_salt     == <<115, 97, 108, 116>>                         \* "salt"

SaltTexts == {S_somesalt, S_pepper, S_salt}

\* salts as bytes: the texts, the empty salt and a byte that is not UTF-8
SaltBytes == SaltTexts \cup {<<>>, <<255>>}

AlgoIds == {ID_argon2i, ID_bcrypt, ID_scrypt, ID_md5}

Nonces == 1..MaxNonce

\* the random draws the provider named by algo makes: only bcrypt draws
Draws(algo) == IF algo = ID_bcrypt THEN Nonces ELSE {0}

HashInputs == {RawHash(<<>>), RawHash(<<1, 2, 3>>)}

-----------------------------------------------------------------------------
(* History of the entity                                                   *)

Op(name, pw, salt, algo, hash) ==
    [name |-> name, pw |-> pw, salt |-> salt, algo |-> algo, hash |-> hash,
     text |-> <<>>, tag |-> "None", cost |-> 0, calls |-> <<>>]

\* an operation whose argument is one text (a hash string)
OpText(name, text) ==
    [Op(name, <<>>, <<>>, <<>>, RawHash(<<>>)) EXCEPT !.text = text]

NoTrack ==
    [by |-> "none", pw |-> <<>>, salt |-> <<>>, algo |-> <<>>,
     alg0 |-> "None", pristine |-> FALSE, sameOnly |-> FALSE,
     hashIntact |-> FALSE, lastSalt |-> <<>>, saltMoved |-> FALSE]

\* after a successful new(password, salt, algo)
TrackNew(e, password, salt, algo) ==
    [by |-> "new", pw |-> password, salt |-> salt,
     algo |-> algo, alg0 |-> e.algorithm, pristine |-> TRUE, sameOnly |-> TRUE,
     hashIntact |-> TRUE, lastSalt |-> salt, saltMoved |-> FALSE]

\* the history is kept only as long as a claim can still refer to it
Forget(t) ==
    LET live == t.sameOnly \/ t.hashIntact IN
    [t EXCEPT !.pw = IF live THEN @ ELSE <<>>,
              !.salt = IF live THEN @ ELSE <<>>,
              !.algo = IF t.sameOnly THEN @ ELSE <<>>,
              !.lastSalt = IF t.hashIntact THEN @ ELSE <<>>,
              !.saltMoved = IF t.hashIntact THEN @ ELSE FALSE]

\* after a successful constructor that is given no password
TrackImport(e, by) == [NoTrack EXCEPT !.by = by, !.alg0 = e.algorithm]

-----------------------------------------------------------------------------
(* The state machine                                                       *)

Init ==
    /\ h = NoHash
    /\ op = Op("init", <<>>, <<>>, <<>>, RawHash(<<>>))
    /\ res = NoResult
    /\ invoked = {}
    /\ out = {}
    /\ track = NoTrack

New(password, salt, algo, nonce) ==
    LET r == new(password, salt, algo, nonce) IN
    /\ h' = r.h
    /\ op' = Op("new", password, salt, algo, RawHash(<<>>))
    /\ res' = r.ret
    /\ invoked' = r.prims
    /\ out' = {}
    /\ track' = IF r.ret.kind = "Ok"
                THEN TrackNew(r.h, password, salt, algo) ELSE NoTrack

FromHash(hash, algo) ==
    LET r == from_hash(hash, algo) IN
    /\ h' = r.h
    /\ op' = Op("from_hash", <<>>, <<>>, algo, hash)
    /\ res' = r.ret
    /\ invoked' = r.prims
    /\ out' = {}
    /\ track' = IF r.ret.kind = "Ok" THEN TrackImport(r.h, "from_hash") ELSE NoTrack

SetHash(hash) ==
    /\ h # NoHash
    /\ h' = set_hash(h, hash)
    /\ op' = Op("set_hash", <<>>, <<>>, <<>>, hash)
    /\ res' = OkUnit
    /\ invoked' = {}
    /\ out' = {}
    /\ track' = Forget([track EXCEPT !.pristine = FALSE, !.sameOnly = FALSE,
                                     !.hashIntact = FALSE])

SetSalt(salt) ==
    /\ h # NoHash
    /\ h' = set_salt(h, salt)
    /\ op' = Op("set_salt", <<>>, salt, <<>>, RawHash(<<>>))
    /\ res' = OkUnit
    /\ invoked' = {}
    /\ out' = {}
    /\ track' = Forget([track EXCEPT !.pristine = FALSE, !.sameOnly = FALSE,
                                     !.lastSalt = salt,
                                     !.saltMoved = @ \/ salt # track.salt])

SetPassword(password, salt, algo, nonce) ==
    LET r == set_password(h, password, salt, algo, nonce) IN
    /\ h # NoHash
    /\ h' = r.h
    /\ op' = Op("set_password", password, salt, algo, RawHash(<<>>))
    /\ res' = r.ret
    /\ invoked' = r.prims
    /\ out' = r.out
    /\ track' = IF r.ret.kind = "Ok"
                THEN Forget([track EXCEPT !.pristine = FALSE,
                                          !.sameOnly = @ /\ salt = track.salt
                                                         /\ algo = track.algo,
                                          !.pw = password,
                                          !.hashIntact = FALSE])
                ELSE track

Verify(password) ==
    /\ h # NoHash
    /\ \E r \in verify(h, password) :
          /\ h' = r.h
                /\ op' = Op("verify", password, <<>>, <<>>, RawHash(<<>>))
          /\ res' = r.ret
          /\ invoked' = r.prims
          /\ out' = r.out
          /\ track' = track

\* the associated functions below take no entity: h stays as it is
GenerateHash(password, salt, algo, nonce) ==
    LET g == generate_hash(password, salt, algo, nonce) IN
    /\ op' = Op("generate_hash", password, salt, algo, RawHash(<<>>))
    /\ res' = IF g.ret.kind = "Ok" THEN OkHash(g.hash) ELSE g.ret
    /\ invoked' = g.prims
    /\ out' = {}
    /\ UNCHANGED <<h, track>>

GenerateSalt(algo, c, b) ==
    /\ op' = Op("generate_salt", <<>>, <<>>, algo, RawHash(<<>>))
    /\ res' = generate_salt(algo, c, b)
    /\ invoked' = {}
    /\ out' = {}
    /\ UNCHANGED <<h, track>>

FromStr(algo) ==
    /\ op' = Op("from_str", <<>>, <<>>, algo, RawHash(<<>>))
    /\ res' = HashAlgorithm_from_str(algo)
    /\ invoked' = {}
    /\ out' = {}
    /\ UNCHANGED <<h, track>>

\* format!("{}", v) for a variant v
Display(v) ==
    /\ op' = [Op("display", <<>>, <<>>, <<>>, RawHash(<<>>)) EXCEPT !.tag = v]
    /\ res' = OkText(HashAlgorithm_fmt(v))
    /\ invoked' = {}
    /\ out' = {}
    /\ UNCHANGED <<h, track>>

MatchAlgo(algo) ==
    /\ op' = Op("match_algo", <<>>, <<>>, algo, RawHash(<<>>))
    /\ res' = match_algo(algo)
    /\ invoked' = {}
    /\ out' = {}
    /\ UNCHANGED <<h, track>>

ParseAlgorithm(hash_str) ==
    /\ op' = OpText("parse_algorithm", hash_str)
    /\ res' = parse_algorithm(hash_str)
    /\ invoked' = {}
    /\ out' = {}
    /\ UNCHANGED <<h, track>>

FromString(hash_str) ==
    LET r == from_string(hash_str) IN
    /\ h' = r.h
    /\ op' = OpText("from_string", hash_str)
    /\ res' = r.ret
    /\ invoked' = r.prims
    /\ out' = {}
    /\ track' = IF r.ret.kind = "Ok"
                THEN TrackImport(r.h, "from_string") ELSE NoTrack

ToStringRepresentation ==
    /\ h # NoHash
    /\ op' = Op("to_string_representation", <<>>, <<>>, <<>>, RawHash(<<>>))
    /\ res' = OkText(to_string_representation(h))
    /\ invoked' = {}
    /\ out' = {}
    /\ UNCHANGED <<h, track>>

\* the entity is written in the extended form and the text is parsed again
RoundTrip ==
    LET r == from_string(to_string_extended(h)) IN
    /\ h # NoHash
    /\ h' = r.h
    /\ op' = OpText("round_trip", to_string_extended(h))
    /\ res' = r.ret
    /\ invoked' = r.prims
    /\ out' = {}
    /\ track' = IF r.ret.kind = "Ok" THEN track ELSE NoTrack

\* HashBuilder::new() opens a chain new().f(..).g(..).build(): the builder is
\* moved from call to call, so it lives in the chain (op.calls) and nowhere
\* else; no entity is held while the chain is written
BuilderNew ==
    /\ h' = NoHash
    /\ op' = Op("builder", <<>>, <<>>, <<>>, RawHash(<<>>))
    /\ res' = NoResult
    /\ invoked' = {}
    /\ out' = {}
    /\ track' = NoTrack

\* one of .hash(v), .salt(v), .algorithm(v)
BuilderSet(c) ==
    /\ op.name = "builder"
    /\ Len(op.calls) < MaxCalls
    /\ op' = [op EXCEPT !.calls = Append(@, c)]
    /\ UNCHANGED <<h, res, invoked, out, track>>

\* .build()
BuilderBuild ==
    LET r == HashBuilder_build(Chained(op.calls)) IN
    /\ op.name = "builder"
    /\ h' = r.h
    /\ op' = [op EXCEPT !.name = "build"]
    /\ res' = r.ret
    /\ invoked' = r.prims
    /\ out' = {}
    /\ track' = IF r.ret.kind = "Ok" THEN TrackImport(r.h, "build") ELSE NoTrack

NewArgon2i(password, salt) ==
    LET r == new_argon2i(password, salt) IN
    /\ h' = r.h
    /\ op' = Op("new_argon2i", password, salt, <<>>, RawHash(<<>>))
    /\ res' = r.ret
    /\ invoked' = r.prims
    /\ out' = {}
    /\ track' = IF r.ret.kind = "Ok"
                THEN [TrackNew(r.h, password, salt, ID_argon2i)
                         EXCEPT !.by = "new_argon2i"]
                ELSE NoTrack

NewBcrypt(password, cost, nonce) ==
    LET r == new_bcrypt(password, cost, nonce) IN
    /\ h' = r.h
    /\ op' = [Op("new_bcrypt", password, <<>>, <<>>, RawHash(<<>>))
                 EXCEPT !.cost = cost]
    /\ res' = r.ret
    /\ invoked' = r.prims
    /\ out' = {}
    /\ track' = IF r.ret.kind = "Ok"
                THEN [TrackNew(r.h, password, <<>>, ID_bcrypt)
                         EXCEPT !.by = "new_bcrypt"]
                ELSE NoTrack

NewScrypt(password, salt) ==
    LET r == new_scrypt(password, salt) IN
    /\ h' = r.h
    /\ op' = Op("new_scrypt", password, salt, <<>>, RawHash(<<>>))
    /\ res' = r.ret
    /\ invoked' = r.prims
    /\ out' = {}
    /\ track' = IF r.ret.kind = "Ok"
                THEN [TrackNew(r.h, password, salt, ID_scrypt)
                         EXCEPT !.by = "new_scrypt"]
                ELSE NoTrack

Next ==
    \/ \E p \in Passwords, s \in SaltTexts, a \in AlgoIds :
          \E n \in Draws(a) : New(p, s, a, n)
    \/ \E b \in HashInputs, a \in AlgoIds : FromHash(b, a)
    \/ \E b \in HashInputs : SetHash(b)
    \/ \E b \in SaltBytes : SetSalt(b)
    \/ \E p \in Passwords, s \in SaltTexts, a \in AlgoIds :
          \E n \in Draws(a) : SetPassword(p, s, a, n)
    \/ \E p \in Passwords : Verify(p)

Spec == Init /\ [][Next]_vars

\* The operations that take an algorithm identifier, over identifiers in and
\* outside the three the code names
IdTexts == {ID_argon2i, ID_bcrypt, ID_scrypt, ID_md5, ID_Argon2i, ID_empty}

IdPasswords == {P_short, P_accents}

IdSalts == {S_somesalt, S_salt}

\* what the random source yields: a letter or digit, and a byte
RandomChars == {97, 90, 57}

RandomBytes == {0, 77, 255}

NextIds ==
    \/ \E p \in IdPasswords, s \in IdSalts, a \in IdTexts :
          \E n \in Draws(a) : New(p, s, a, n)
    \/ \E b \in HashInputs, a \in IdTexts : FromHash(b, a)
    \/ \E p \in IdPasswords, s \in IdSalts, a \in IdTexts :
          \E n \in Draws(a) : SetPassword(p, s, a, n)
    \/ \E p \in IdPasswords, s \in IdSalts, a \in IdTexts :
          \E n \in Draws(a) : GenerateHash(p, s, a, n)
    \/ \E a \in IdTexts, c \in RandomChars, b \in RandomBytes :
          GenerateSalt(a, c, b)
    \/ \E a \in IdTexts : FromStr(a)
    \/ \E a \in IdTexts : MatchAlgo(a)
    \/ \E v \in {"Argon2i", "Bcrypt", "Scrypt"} : Display(v)

SpecIds == Init /\ [][NextIds]_vars

\* The builder and the constructors that go through it, with passwords of
\* fewer than 8 bytes among the inputs
SetterCalls ==
    {Call("hash", b, <<>>, "None") : b \in {RawHash(<<1, 2, 3>>), RawHash(<<>>)}}
    \cup {Call("salt", RawHash(<<>>), S_salt, "None")}
    \cup {Call("algorithm", RawHash(<<>>), <<>>, a) : a \in {"Argon2i", "Bcrypt"}}

BuildPasswords == {<<>>, P_short, P_longB, P_longC}

BuildSalts == {S_somesalt, S_salt, <<255>>}

Costs == {0, 3, 4, 12}

NextBuild ==
    \/ BuilderNew
    \/ \E c \in SetterCalls : BuilderSet(c)
    \/ BuilderBuild
    \/ \E p \in BuildPasswords, s \in BuildSalts : NewArgon2i(p, s)
    \/ \E p \in BuildPasswords, c \in Costs, n \in Nonces : NewBcrypt(p, c, n)
    \/ \E p \in BuildPasswords, s \in BuildSalts : NewScrypt(p, s)
    \/ \E p \in {<<>>, P_short}, s \in {S_somesalt, S_salt}, a \in AlgoIds :
          \E n \in Draws(a) : SetPassword(p, s, a, n)
    \/ \E p \in {<<>>, P_short}, s \in {S_somesalt, S_salt}, a \in AlgoIds :
          \E n \in Draws(a) : GenerateHash(p, s, a, n)
    \/ \E p \in BuildPasswords : Verify(p)

SpecBuild == Init /\ [][NextBuild]_vars

\* Hash strings: every combination of an algorithm token, a list of
\* parameters and a last segment, joined by "$" after an empty leading
\* segment, and some with another leading segment or fewer segments
RECURSIVE Join(_)
Join(segs) ==
    IF Len(segs) = 1 THEN segs[1]
    ELSE segs[1] \o <<DOLLAR>> \o Join(Tail(segs))

ID_unsupported == <<117, 110, 115, 117, 112, 112, 111, 114, 116, 101, 100>>   \* "unsupported"

T_x == <<120>>                                              \* "x"
T_v == <<118, 61, 49, 57>>                                 \* "v=19"
T_m == <<109, 61, 49>>                                      \* "m=1"
T_c == <<99, 50, 70, 115, 100, 65>>                         \* "c2FsdA"

Tokens == {ID_argon2i, ID_bcrypt, ID_scrypt, ID_unsupported}

\* two, three and four parameters
ParamLists ==
    {<<T_v, T_c>>, <<T_v, T_m, T_c>>, <<T_x, T_x, T_x>>,
     <<T_x, T_x, T_x, T_x>>}

\* the base64 of [1, 2, 3], of [10], of [0, 255] and of no bytes
B64Fields ==
    {<<65, 81, 73, 68>>, <<67, 103, 61, 61>>, <<65, 80, 56, 61>>, <<>>}

\* not base64: padding left out, stray bits before the padding, a character
\* outside the alphabet, a lone character
BadFields ==
    {<<67, 103>>, <<67, 104, 61, 61>>, <<67, 33, 61, 61>>, T_x}

T_plain == <<110, 111, 45, 100, 111, 108, 108, 97, 114, 45, 115, 105, 103, 110, 115>>

T_short == ID_argon2i \o <<DOLLAR>> \o T_c

HashStrings ==
    {Join(<<<<>>, a>> \o ps \o <<f>>) :
        a \in Tokens, ps \in ParamLists, f \in B64Fields \cup BadFields}
    \cup {Join(<<T_x, a, T_v, T_m, T_c, f>>) :
             a \in {ID_scrypt, ID_Argon2i}, f \in B64Fields}
    \cup {T_plain, T_short, <<DOLLAR>> \o T_short, <<>>}

AlgorithmStrings ==
    {T_plain, T_short, <<DOLLAR>> \o T_short, <<>>,
     Join(<<<<>>, ID_unsupported, T_c>>), Join(<<T_x, ID_bcrypt, T_c>>),
     Join(<<<<>>, ID_scrypt, T_c>>)}

NextCodec ==
    \/ \E t \in HashStrings : FromString(t)
    \/ \E t \in AlgorithmStrings : ParseAlgorithm(t)
    \/ \E b \in HashInputs, a \in AlgoIds : FromHash(b, a)
    \/ \E b \in SaltBytes : SetSalt(b)
    \/ ToStringRepresentation
    \/ RoundTrip

SpecCodec == Init /\ [][NextCodec]_vars

-----------------------------------------------------------------------------
(* Properties                                                              *)

\* the number of characters of a UTF-8 text (its bytes that start a character)
CharCount(b) == Cardinality({i \in 1..Len(b) : ~IsCont(b[i])})

\* the results a set of outcomes holds
Results(outcomes) == {o.ret : o \in outcomes}

\* the last operation was a verify on an entity built by new
VerifiedAfterNew == op.name = "verify" /\ track.by = "new"

\* C1: an entity returned by new(p, s, a) and not mutated since verifies p with
\* Ok(true) and every other candidate with Ok(false)
C1_VerifyRoundTrip ==
    VerifiedAfterNew /\ track.pristine => res = OkBool(op.pw = track.pw)

\* C2: after successful set_password calls with the salt text and identifier of
\* construction, and no other mutation, verify is Ok(true) for the most
\* recently set password and Ok(false) for every other candidate
C2_VerifiesLastPassword ==
    VerifiedAfterNew /\ track.sameOnly /\ ~track.pristine
        => res = OkBool(op.pw = track.pw)

\* C3: whatever operations follow its construction, an entity keeps the
\* algorithm tag it was constructed with
C3_AlgorithmFixed == h # NoHash => h.algorithm = track.alg0

\* C3 witness: a set_password naming bcrypt has succeeded on an Argon2i entity
C3_Witness ==
    /\ op.name = "set_password"
    /\ res.kind = "Ok"
    /\ op.algo = ID_bcrypt
    /\ h.algorithm = "Argon2i"

\* C4: the entity a constructor has just returned has a non-empty hash
C4_HashNonEmpty ==
    op.name \in {"new", "from_hash"} /\ res.kind = "Ok" => HashLen(h.hash) > 0

\* C5: set_hash(b) sets hash to b and nothing else, set_salt(b) sets salt to b
\* and nothing else, and a successful set_password replaces hash by the
\* provider's output and leaves salt (and the tag) as they were
C5_MutatorsFrame ==
    [][/\ op'.name = "set_hash" =>
             h' = [h EXCEPT !.hash = op'.hash]
       /\ op'.name = "set_salt" =>
             h' = [h EXCEPT !.salt = op'.salt]
       /\ op'.name = "set_password" /\ res'.kind = "Ok" =>
             /\ h'.salt = h.salt
             /\ h'.algorithm = h.algorithm
             /\ \E n \in Draws(op'.algo) :
                   h'.hash = generate_hash(op'.pw, op'.salt, op'.algo, n).hash
      ]_vars

\* C5 witness: set_password has succeeded with a salt argument that is not the
\* stored salt
C5_Witness ==
    /\ op.name = "set_password"
    /\ res.kind = "Ok"
    /\ op.salt # h.salt
    /\ from_utf8_ok(h.salt)

\* C6: verify leaves hash, salt and algorithm as they were, whatever it returns
C6_VerifyPure == [][op'.name = "verify" => h' = h]_vars

\* C6 witness: a verify on an Argon2i entity has returned Ok(false)
C6_Witness ==
    /\ op.name = "verify"
    /\ h.algorithm = "Argon2i"
    /\ res = OkBool(FALSE)

\* C7: a Bcrypt entity gives the same verify result, for every candidate,
\* whatever bytes its salt field holds
C7_BcryptSaltUnread ==
    h # NoHash /\ h.algorithm = "Bcrypt" =>
        \A b \in SaltBytes, q \in Passwords :
            Results(verify(set_salt(h, b), q)) = Results(verify(h, q))

\* C8: on an Argon2i or Scrypt entity built by new(p, s, a) whose hash was not
\* replaced, verify(p) is Ok(true) exactly when the last salt stored is the
\* bytes of s
C8_SaltMustMatch ==
    /\ VerifiedAfterNew
    /\ track.hashIntact
    /\ track.alg0 \in {"Argon2i", "Scrypt"}
    /\ op.pw = track.pw
    => (res = OkBool(TRUE) <=> track.lastSalt = track.salt)

\* C8 witness: the salt was replaced and then restored, and verify(p) is
\* Ok(true)
C8_Witness ==
    /\ VerifiedAfterNew
    /\ track.hashIntact
    /\ track.alg0 \in {"Argon2i", "Scrypt"}
    /\ op.pw = track.pw
    /\ track.saltMoved
    /\ track.lastSalt = track.salt
    /\ res = OkBool(TRUE)

\* C9: when the stored salt is not UTF-8, verify returns the salt-decode error
\* and calls no primitive, whatever the algorithm
C9_SaltDecodedFirst ==
    op.name = "verify" /\ ~from_utf8_ok(h.salt)
        => res = Err(E_SaltUtf8, <<>>) /\ invoked = {}

\* C9 witness: verify has run on a Bcrypt entity whose salt is not UTF-8
C9_Witness ==
    /\ op.name = "verify"
    /\ h.algorithm = "Bcrypt"
    /\ h.hash.kind = "bcrypt"
    /\ ~from_utf8_ok(h.salt)

\* C10: new returns the too-short error, no entity, and calls no provider for
\* every password of fewer than 8 characters
C10_ShortPasswordRejected ==
    op.name = "new" /\ CharCount(op.pw) < 8
        => res = Err(E_TooShort, <<>>) /\ h = NoHash /\ invoked = {}

\* C12: after every successful new(p, s, a) the entity's algorithm is the
\* variant a names, its salt is the bytes of s exactly (for Bcrypt too), and
\* its hash is what the provider of a returned for (p, s): 32 bytes for
\* Argon2i, 60 for Bcrypt, 64 for Scrypt.
C12_NewStoresInputs ==
    (op.name = "new" /\ res.kind = "Ok") =>
        /\ OkTag(h.algorithm) = match_algo(op.algo)
        /\ h.salt = op.salt
        /\ \E n \in Draws(op.algo) :
              h.hash = generate_hash(op.pw, op.salt, op.algo, n).hash
        /\ HashLen(h.hash) = CASE h.algorithm = "Argon2i" -> 32
                                [] h.algorithm = "Bcrypt"  -> 60
                                [] h.algorithm = "Scrypt"  -> 64

\* a Bcrypt entity built by new from a salt of four bytes
C12_Witness ==
    /\ op.name = "new"
    /\ res.kind = "Ok"
    /\ h.algorithm = "Bcrypt"
    /\ op.salt = S_salt
    /\ h.salt = S_salt
    /\ HashLen(h.hash) = 60

\* C13: no operation raises a fault: new, set_password and verify return Ok
\* or Err for every argument combination and every reachable entity.
C13_NoPanic == res.kind # "Panic"

\* C14: verify writes neither the candidate password, nor the salt, nor the
\* recomputed hash, nor the stored hash to standard output.
C14_VerifySilent ==
    op.name = "verify" =>
        out \cap {"password", "salt", "calculated_hash", "stored_hash"} = {}

\* the operations that take an algorithm identifier
TakesIdentifier ==
    {"new", "generate_hash", "set_password", "from_hash", "generate_salt",
     "from_str", "match_algo"}

KnownIds == {ID_argon2i, ID_bcrypt, ID_scrypt}

VariantNamed(id) ==
    CASE id = ID_argon2i -> "Argon2i"
      [] id = ID_bcrypt  -> "Bcrypt"
      [] id = ID_scrypt  -> "Scrypt"
      [] OTHER -> "None"

PrimitiveNamed(id) ==
    CASE id = ID_argon2i -> "argon2i"
      [] id = ID_bcrypt  -> "bcrypt"
      [] id = ID_scrypt  -> "scrypt"
      [] OTHER -> "raw"

\* the length of the salt text generate_salt returns for an identifier
SaltLenNamed(id) ==
    CASE id = ID_argon2i -> 16
      [] id = ID_bcrypt  -> 24
      [] id = ID_scrypt  -> 44
      [] OTHER -> 0

\* the error an operation returns for an identifier it does not know
IdentifierRejected ==
    /\ res.kind = "Err"
    /\ res.err \in {E_Unsupported, E_InvalidAlgorithm}

\* C11: every operation that takes an algorithm identifier returns an error
\* for every string other than "argon2i", "bcrypt" and "scrypt" (matched
\* exactly, case included), rejects none of these three as an identifier, and
\* maps each of them to the same variant: the entity's tag, the returned
\* variant, the primitive that derives the hash, the shape of the salt.
C11_IdentifiersExact ==
    op.name \in TakesIdentifier =>
        /\ op.algo \notin KnownIds => res.kind = "Err"
        /\ op.algo \in KnownIds => ~IdentifierRejected
        /\ (res.kind = "Ok" /\ op.name \in {"new", "from_hash"}) =>
                h.algorithm = VariantNamed(op.algo)
        /\ (res.kind = "Ok" /\ op.name \in {"from_str", "match_algo"}) =>
                res.tag = VariantNamed(op.algo)
        /\ (res.kind = "Ok" /\ op.name = "generate_hash") =>
                res.hash.kind = PrimitiveNamed(op.algo)
        /\ (res.kind = "Ok" /\ op.name \in {"new", "set_password"}) =>
                h.hash.kind = PrimitiveNamed(op.algo)
        /\ (res.kind = "Ok" /\ op.name = "generate_salt") =>
                Len(res.text) = SaltLenNamed(op.algo)

\* generate_salt has rejected the capitalised "Argon2i"
C11_Witness ==
    /\ op.name = "generate_salt"
    /\ op.algo = ID_Argon2i
    /\ IdentifierRejected
    /\ res.earg = ID_Argon2i

\* the number of "$"-separated segments of a text: its "$" and one more
SegmentCount(t) == Cardinality({i \in 1..Len(t) : t[i] = DOLLAR}) + 1

\* the k-th segment of a text (k from 1)
Segment(t, k) == split(t, DOLLAR)[k]

\* $<algorithm>$<param1>$...$<param n>$<base64(hash)>: a known identifier,
\* n parameters and a last field that is the base64 of some bytes
WireForm(t, n) ==
    /\ SegmentCount(t) = n + 3
    /\ Segment(t, 1) = <<>>
    /\ Segment(t, 2) \in KnownIds
    /\ Segment(t, n + 3) \in B64Fields

\* C15 as stated: from_string accepts every string of the form
\* $<algorithm>$<param1>$<param2>$<param3>$<param4>$<base64(hash)> and keeps
\* the four parameters verbatim in the salt.
C15_FourParamsAccepted ==
    (op.name = "from_string" /\ WireForm(op.text, 4)) =>
        /\ res.kind = "Ok"
        /\ SegmentCount(h.salt) = 6
        /\ \A k \in 3..6 : Segment(h.salt, k) = Segment(op.text, k)

\* C15, amended: from_string accepts every string of the form
\* $<algorithm>$<param1>$<param2>$<param3>$<base64(hash)> with a known
\* identifier and a valid base64 last field, and the salt of the entity is
\* "$", the identifier and the three parameters verbatim, "$" between them.
C15_ThreeParamsAccepted ==
    (op.name = "from_string" /\ WireForm(op.text, 3)) =>
        /\ res.kind = "Ok"
        /\ SegmentCount(h.salt) = 5
        /\ \A k \in 1..5 : Segment(h.salt, k) = Segment(op.text, k)

\* "$argon2i$v=19$m=1$c2FsdA$AQID" has been parsed
C15_Witness ==
    /\ op.name = "from_string"
    /\ op.text = Join(<<<<>>, ID_argon2i, T_v, T_m, T_c, <<65, 81, 73, 68>>>>)
    /\ res.kind = "Ok"
    /\ h.salt = Join(<<<<>>, ID_argon2i, T_v, T_m, T_c>>)

\* C16: for every string from_string accepts, with s0..s5 its six segments,
\* the algorithm is the variant s1 names, the hash is the bytes whose
\* standard base64 is s5, and the salt is "$" s1 "$" s2 "$" s3 "$" s4; when
\* there are six segments, s1 is known and s5 is not base64, the result is
\* the error "Failed to decode base64: " with s5, and there is no entity.
C16_ParsedFields ==
    op.name = "from_string" =>
        /\ res.kind = "Ok" =>
              /\ SegmentCount(op.text) = 6
              /\ h.algorithm = VariantNamed(Segment(op.text, 2))
              /\ h.algorithm # "None"
              /\ h.hash.kind = "raw"
              /\ Base64Encode(h.hash.raw) = Segment(op.text, 6)
              /\ h.salt = <<DOLLAR>> \o Segment(op.text, 2)
                             \o <<DOLLAR>> \o Segment(op.text, 3)
                             \o <<DOLLAR>> \o Segment(op.text, 4)
                             \o <<DOLLAR>> \o Segment(op.text, 5)
        /\ ( /\ SegmentCount(op.text) = 6
             /\ Segment(op.text, 2) \in KnownIds
             /\ Segment(op.text, 6) \in BadFields ) =>
              /\ res = Err(E_Base64, Segment(op.text, 6))
              /\ h = NoHash

\* a string whose last segment is the padded base64 of two bytes is parsed
C16_Witness ==
    /\ op.name = "from_string"
    /\ res.kind = "Ok"
    /\ Segment(op.text, 6) = <<65, 80, 56, 61>>
    /\ h.hash = RawHash(<<0, 255>>)
    /\ h.algorithm = "Bcrypt"

\* C17: from_string returns the error "Invalid hash string" for every input
\* whose number of "$"-separated segments is not six.
C17_SegmentCountChecked ==
    (op.name = "from_string" /\ SegmentCount(op.text) # 6) =>
        /\ res = Err(E_InvalidString, <<>>)
        /\ h = NoHash

\* a string of seven segments with a known identifier and a base64 last
\* segment has been rejected
C17_Witness ==
    /\ op.name = "from_string"
    /\ SegmentCount(op.text) = 7
    /\ Segment(op.text, 2) \in KnownIds
    /\ Segment(op.text, 7) \in B64Fields \ {<<>>}
    /\ res = Err(E_InvalidString, <<>>)

\* C18 as stated: from_string on a string whose algorithm token is not one
\* of the three identifiers fails with the unsupported-algorithm error that
\* names the token, "$unsupported$x$x$x$x$x" included.
C18_UnknownTokenNamed ==
    ( /\ op.name = "from_string"
      /\ SegmentCount(op.text) >= 2
      /\ Segment(op.text, 2) \notin KnownIds ) =>
        res = Err(E_Unsupported, Segment(op.text, 2))

\* C18, amended: from_string on a string of exactly six segments whose
\* algorithm token is not one of the three identifiers fails with the
\* unsupported-algorithm error that names the token, as for
\* "$unsupported$x$x$x$x"; with another number of segments, as in
\* "$unsupported$x$x$x$x$x", the error is "Invalid hash string".
C18_UnknownTokenOfSix ==
    ( /\ op.name = "from_string"
      /\ SegmentCount(op.text) >= 2
      /\ Segment(op.text, 2) \notin KnownIds ) =>
        /\ SegmentCount(op.text) = 6 =>
              res = Err(E_Unsupported, Segment(op.text, 2))
        /\ SegmentCount(op.text) # 6 => res = Err(E_InvalidString, <<>>)
        /\ h = NoHash

\* "$unsupported$x$x$x$x" has been rejected for its token
C18_Witness ==
    /\ op.name = "from_string"
    /\ op.text = Join(<<<<>>, ID_unsupported, T_x, T_x, T_x, T_x>>)
    /\ res = Err(E_Unsupported, ID_unsupported)

\* C19: when the entity from_string has just returned is written in the
\* extended form and that text is parsed by from_string, the result is an
\* entity with the same algorithm, hash bytes and salt bytes.
C19_CodecRoundTrip ==
    [][ ( /\ op'.name = "round_trip"
          /\ op.name \in {"from_string", "round_trip"}
          /\ res.kind = "Ok" ) =>
            /\ res'.kind = "Ok"
            /\ h'.algorithm = h.algorithm
            /\ h'.hash = h.hash
            /\ h'.salt = h.salt ]_vars

\* an entity parsed from a string is written, with padding, and parsed again
C19_Witness ==
    /\ op.name = "round_trip"
    /\ res.kind = "Ok"
    /\ track.by = "from_string"
    /\ h.hash = RawHash(<<10>>)
    /\ op.text = h.salt \o <<DOLLAR, 67, 103, 61, 61>>

\* the value of a lowercase hexadecimal digit, -1 for any other character
HexVal(c) ==
    IF c >= 48 /\ c <= 57 THEN c - 48
    ELSE IF c >= 97 /\ c <= 102 THEN c - 97 + 10
    ELSE -1

Variants == {"Argon2i", "Bcrypt", "Scrypt"}

\* C20: to_string_representation returns the salt as lossy UTF-8 (the salt
\* itself when it is UTF-8, else a UTF-8 text with U+FFFD in it), one ":",
\* and the hash in lowercase hex with two digits per byte, so that the text
\* after the last ":" has twice the length of the hash; the algorithm does
\* not show: the entity with any other algorithm gives the same text.
C20_ColonForm ==
    op.name = "to_string_representation" =>
        LET t == res.text
            n == HashLen(h.hash)
            k == Len(t) - 2 * n
        IN  /\ k >= 1
            /\ t[k] = COLON
            /\ \A j \in (k + 1)..Len(t) : HexVal(t[j]) >= 0
            /\ \A i \in 1..n :
                  16 * HexVal(t[k + 2 * i - 1]) + HexVal(t[k + 2 * i])
                      = h.hash.raw[i]
            /\ from_utf8_ok(SubSeq(t, 1, k - 1))
            /\ from_utf8_ok(h.salt) => SubSeq(t, 1, k - 1) = h.salt
            /\ ~from_utf8_ok(h.salt) =>
                  \E i \in 1..(k - 3) : SubSeq(t, i, i + 2) = REPLACEMENT
            /\ \A a \in Variants :
                  to_string_representation([h EXCEPT !.algorithm = a]) = t

\* the text of an entity whose hash has a byte below 16 and whose salt is
\* not UTF-8
C20_Witness ==
    /\ op.name = "to_string_representation"
    /\ h.hash = RawHash(<<1, 2, 3>>)
    /\ h.salt = <<255>>
    /\ res.text = REPLACEMENT \o <<COLON, 48, 49, 48, 50, 48, 51>>

\* C21: the string form of every variant parses back to the variant, and the
\* string form of the variant an identifier parses to is the identifier.
C21_DisplayFromStr ==
    /\ op.name = "display" => HashAlgorithm_from_str(res.text) = OkTag(op.tag)
    /\ (op.name = "from_str" /\ res.kind = "Ok") =>
            HashAlgorithm_fmt(res.tag) = op.algo

\* C23: from_hash(bytes, id) with a known identifier returns an entity whose
\* hash is bytes, whose salt is empty and whose algorithm is the variant id
\* names; with any other identifier it returns the error "Unsupported hash
\* algorithm: " with id, and no entity.
C23_FromHash ==
    op.name = "from_hash" =>
        IF op.algo \in KnownIds
        THEN /\ res = OkUnit
             /\ h.hash = op.hash
             /\ h.salt = <<>>
             /\ h.algorithm = VariantNamed(op.algo)
        ELSE /\ res = Err(E_Unsupported, op.algo)
             /\ h = NoHash

\* from_hash has built a Scrypt entity around three bytes
C23_Witness ==
    /\ op.name = "from_hash"
    /\ op.algo = ID_scrypt
    /\ op.hash = RawHash(<<1, 2, 3>>)
    /\ h = Entity(RawHash(<<1, 2, 3>>), <<>>, "Scrypt")

\* a letter or a digit of ASCII
IsAlphanumeric(c) ==
    \/ c >= 48 /\ c <= 57
    \/ c >= 65 /\ c <= 90
    \/ c >= 97 /\ c <= 122

\* C25: generate_salt returns 16 ASCII letters and digits for "argon2i", the
\* 24 characters that are the base64 of 16 bytes for "bcrypt", the 44
\* characters that are the base64 of 32 bytes for "scrypt", and for any
\* other identifier the error "Unsupported hash algorithm: " with it.
C25_SaltShapes ==
    op.name = "generate_salt" =>
        CASE op.algo = ID_argon2i ->
               /\ res.kind = "Ok"
               /\ Len(res.text) = 16
               /\ \A i \in 1..Len(res.text) : IsAlphanumeric(res.text[i])
          [] op.algo = ID_bcrypt ->
               /\ res.kind = "Ok"
               /\ Len(res.text) = 24
               /\ Base64Decode(res.text).ok
               /\ Len(Base64Decode(res.text).bytes) = 16
          [] op.algo = ID_scrypt ->
               /\ res.kind = "Ok"
               /\ Len(res.text) = 44
               /\ Base64Decode(res.text).ok
               /\ Len(Base64Decode(res.text).bytes) = 32
          [] OTHER -> res = Err(E_Unsupported, op.algo)

\* a bcrypt salt of 24 characters that ends with the padding of 16 bytes
C25_Witness ==
    /\ op.name = "generate_salt"
    /\ op.algo = ID_bcrypt
    /\ res.kind = "Ok"
    /\ Len(res.text) = 24
    /\ res.text[23] = B64Pad
    /\ res.text[1] # B64Char(0)

\* C26: when set_password returns Err, the entity is as it was before the
\* call: hash, salt and algorithm are unchanged.
C26_FailedSetPasswordFrame ==
    [][(op'.name = "set_password" /\ res'.kind = "Err") => h' = h]_vars

\* set_password has returned an error on an entity that holds a digest
C26_Witness ==
    /\ op.name = "set_password"
    /\ res = Err(E_Unsupported, ID_md5)
    /\ h.hash.kind \in {"argon2i", "bcrypt", "scrypt"}

\* C29: new looks at the length of the password first and at the identifier
\* second: with a password shorter than 8 and an unknown identifier the
\* error is the password-too-short one, the unsupported-algorithm error
\* comes only with a password of length 8 or more, and in both cases no
\* provider was invoked and there is no entity.
C29_LengthBeforeIdentifier ==
    op.name = "new" =>
        /\ (Len(op.pw) < 8 /\ op.algo \notin KnownIds) =>
                res = Err(E_TooShort, <<>>)
        /\ (res.kind = "Err" /\ res.err = E_Unsupported) =>
                /\ Len(op.pw) >= 8
                /\ res.earg = op.algo
        /\ (res.kind = "Err" /\ res.err \in {E_TooShort, E_Unsupported}) =>
                /\ invoked = {}
                /\ h = NoHash

\* new("short", _, "md5") has returned the password-too-short error
C29_Witness ==
    /\ op.name = "new"
    /\ op.pw = P_short
    /\ op.algo = ID_md5
    /\ res = Err(E_TooShort, <<>>)
    /\ invoked = {}

\* the text t with the text before its first "$" replaced by lead
WithLead(t, lead) ==
    LET first == CHOOSE i \in 1..Len(t) :
                    /\ t[i] = DOLLAR
                    /\ \A j \in 1..(i - 1) : t[j] # DOLLAR
    IN  lead \o SubSeq(t, first, Len(t))

\* C30: from_string and parse_algorithm ignore the text before the first
\* "$": the same input with any other leading segment, empty or not, gives
\* the same result, an equal entity or the same error.
C30_LeadingSegmentIgnored ==
    (op.name \in {"from_string", "parse_algorithm"}
        /\ SegmentCount(op.text) >= 2) =>
        \A lead \in {<<>>, T_x, T_v} :
            IF op.name = "from_string"
            THEN from_string(WithLead(op.text, lead)) = Built(res, h, {})
            ELSE parse_algorithm(WithLead(op.text, lead)) = res

\* from_string has accepted a string whose leading segment is not empty
C30_Witness ==
    /\ op.name = "from_string"
    /\ Segment(op.text, 1) = T_x
    /\ res.kind = "Ok"
    /\ h.algorithm = "Scrypt"

\* the arguments of the set_password that has just succeeded do not match
\* the entity: another salt than the stored one on an Argon2i or Scrypt
\* entity, or an identifier of another algorithm than the entity's
SetPasswordMismatch ==
    /\ op.name = "set_password"
    /\ res.kind = "Ok"
    /\ \/ h.algorithm \in {"Argon2i", "Scrypt"} /\ op.salt # h.salt
       \/ VariantNamed(op.algo) # h.algorithm

\* C27: set_password leaves the stored salt and algorithm as they were, and
\* a verify of the password just set, right after a successful set_password
\* whose salt or identifier does not match the entity, does not return
\* Ok(true).
C27_SetPasswordKeepsSaltAndTag ==
    [][ /\ op'.name = "set_password" =>
              /\ h'.salt = h.salt
              /\ h'.algorithm = h.algorithm
        /\ (SetPasswordMismatch /\ op'.name = "verify" /\ op'.pw = op.pw) =>
              res' # OkBool(TRUE) ]_vars

\* a Scrypt entity has taken a password with another salt than its own, and
\* verify of that password returns Ok(false)
C27_Witness ==
    /\ SetPasswordMismatch
    /\ h.algorithm = "Scrypt"
    /\ op.algo = ID_scrypt
    /\ op.salt # h.salt
    /\ \A o \in verify(h, op.pw) : o.ret = OkBool(FALSE)

\* the places in a chain of setter calls where a field is set
SetAt(calls, field) == {i \in 1..Len(calls) : calls[i].field = field}

\* the last of a non-empty set of places
Last(places) == CHOOSE i \in places : \A j \in places : j <= i

C24_NewBcrypt ==
    /\ op.name = "new_bcrypt" =>
          IF op.cost < BCRYPT_MIN_COST \/ op.cost > BCRYPT_MAX_COST
          THEN /\ res.kind = "Err"
               /\ h = NoHash
          ELSE /\ res = OkUnit
               /\ h.algorithm = "Bcrypt"
               /\ h.salt = <<>>
               /\ HashLen(h.hash) > 0
    /\ (op.name = "verify" /\ track.by = "new_bcrypt" /\ track.pristine) =>
          res = OkBool(op.pw = track.pw)

\* the operations of C28 and what makes their other arguments acceptable
LengthUnchecked ==
    {"set_password", "generate_hash", "new_argon2i", "new_bcrypt", "new_scrypt"}

OthersAcceptable ==
    CASE op.name \in {"set_password", "generate_hash"} ->
           /\ op.algo \in KnownIds
           /\ op.algo = ID_argon2i => Len(op.salt) >= ARGON2_MIN_SALT
      [] op.name = "new_argon2i" ->
           from_utf8_ok(op.salt) /\ Len(op.salt) >= ARGON2_MIN_SALT
      [] op.name = "new_scrypt" -> from_utf8_ok(op.salt)
      [] op.name = "new_bcrypt" ->
           op.cost >= BCRYPT_MIN_COST /\ op.cost <= BCRYPT_MAX_COST
      [] OTHER -> FALSE

\* C28: set_password, generate_hash, new_argon2i, new_bcrypt and new_scrypt
\* check no password length: with a password of fewer than 8 bytes, the
\* empty one included, they never return the password-too-short error, and
\* they succeed whenever identifier, salt and cost are acceptable; the
\* entity then holds a hash derived from that password.
C28_NoLengthCheckElsewhere ==
    (op.name \in LengthUnchecked /\ Len(op.pw) < 8) =>
        /\ res.err # E_TooShort
        /\ OthersAcceptable =>
              /\ res.kind = "Ok"
              /\ op.name # "generate_hash" =>
                    /\ h.hash.kind \in {"argon2i", "bcrypt", "scrypt"}
                    /\ h.hash.pw \in {op.pw, bcrypt_key(op.pw)}
              /\ op.name = "generate_hash" => res.hash.kind # "raw"

\* an entity holds a hash derived from the empty password
C28_Witness ==
    /\ op.name = "new_bcrypt"
    /\ op.pw = <<>>
    /\ res = OkUnit
    /\ h.algorithm = "Bcrypt"
    /\ h.hash.kind = "bcrypt"
    /\ h.hash.pw = <<0>>

====
